---- MODULE Spec2Model ----
(***************************************************************************)
(* Plan execution state machine of deer-flow (src/graph): the coordinator, *)
(* planner, human feedback, research team router, the step executors of    *)
(* the three graphs (base, dependency-aware, database) and the reporter.   *)
(* One action per graph node; a node's Command(goto=..., update=...) is    *)
(* the action's assignment to node and to the state keys it updates.       *)
(* The token manager (src/utils/token_manager.py, token_counter.py) is a   *)
(* set of operators, applied to drawn inputs by the actions of TokenSpec.  *)
(***************************************************************************)
EXTENDS Integers, Sequences, FiniteSets, TLC

\* ------------------------------------------------------------------ bounds
\* most steps the planning model plans in one run, over all its plans
MaxSteps == 2
\* largest configured max_plan_iterations
MaxIter == 2
\* most executor calls per run that raise or return an empty text
MaxFaults == 1
\* most [EDIT_PLAN] decisions the human gives per run
MaxEdits == 1
\* longest message list handed to the token manager
MaxMessages == 3

\* ------------------------------------------------------------ plain values
\* Python None, as a text no result or report can equal
None == "<None>"

\* Python truthiness of Optional[str]: None and "" are falsy
Falsy(x) == x = None \/ x = ""

Variants == {"base", "enhanced", "database"}

\* StepType
RESEARCH == "research"
PROCESSING == "processing"
StepType == {RESEARCH, PROCESSING}

\* ExecutionStatus
PENDING == "pending"
COMPLETED == "completed"
FAILED == "failed"
SKIPPED == "skipped"
RATE_LIMITED == "rate_limited"
ExecutionStatus == {PENDING, COMPLETED, FAILED, SKIPPED, RATE_LIMITED}
TerminalStatus == ExecutionStatus \ {PENDING}

\* Step as the planner's JSON creates it: the fields' defaults
Step(t) ==
  [step_type |-> t, execution_res |-> None, execution_status |-> PENDING,
   error_message |-> None, depends_on |-> {}, dependency_type |-> "none"]

\* every list of at most n freshly created steps
RECURSIVE StepLists(_)
StepLists(n) ==
  IF n = 0 THEN {<<>>}
  ELSE LET shorter == StepLists(n - 1)
       IN shorter \cup {Append(s, Step(t)) : s \in {x \in shorter : Len(x) = n - 1}, t \in StepType}

\* DependencyType, as far as build_context_for_step tells the values apart
DependencyType == {"none", "summary"}

\* What the dependency-aware planning prompt makes the model declare for the
\* step at index k (indices from 1 here, from 0 in the code): nothing, the
\* step before it (with and without a dependency_type), or, for the first
\* step, a forward reference, which validate_step_dependencies only logs
DependencyChoices(k) ==
  {[depends_on |-> {}, dependency_type |-> "none"]}
  \cup (IF k = 1 THEN {[depends_on |-> {2}, dependency_type |-> "summary"]}
        ELSE {[depends_on |-> {k - 1}, dependency_type |-> ty] : ty \in DependencyType})

\* every list of at most n freshly created steps with declared dependencies
RECURSIVE StepListsWithDependencies(_)
StepListsWithDependencies(n) ==
  IF n = 0 THEN {<<>>}
  ELSE LET shorter == StepListsWithDependencies(n - 1)
       IN shorter \cup
          {Append(s, [Step(t) EXCEPT !.depends_on = d.depends_on,
                                     !.dependency_type = d.dependency_type]) :
             s \in {x \in shorter : Len(x) = n - 1}, t \in StepType,
             d \in DependencyChoices(n)}

\* state["current_plan"]: absent, the planner's raw response text, or a Plan
\* (valid: whether json.loads(repair_json_output(text)) succeeds on it)
NoPlan == [kind |-> "none", valid |-> FALSE, has_enough_context |-> FALSE, steps |-> <<>>]
RawPlan(r) ==
  [kind |-> "raw", valid |-> r.valid, has_enough_context |-> r.has_enough_context,
   steps |-> r.steps]
Plan(r) ==
  [kind |-> "plan", valid |-> TRUE, has_enough_context |-> r.has_enough_context,
   steps |-> r.steps]

\* What the planning model answers: text that is no JSON, the JSON of a plan
\* that has enough context (and so no steps), or the JSON of a plan with steps
PlannerResponses(longest) ==
  {[valid |-> FALSE, has_enough_context |-> FALSE, steps |-> <<>>],
   [valid |-> TRUE, has_enough_context |-> TRUE, steps |-> <<>>]}
  \cup {[valid |-> TRUE, has_enough_context |-> FALSE, steps |-> s] :
          s \in StepLists(longest)}

\* the same with the dependency-aware prompt (planner_with_dependencies)
PlannerResponsesWithDependencies(longest) ==
  {[valid |-> FALSE, has_enough_context |-> FALSE, steps |-> <<>>],
   [valid |-> TRUE, has_enough_context |-> TRUE, steps |-> <<>>]}
  \cup {[valid |-> TRUE, has_enough_context |-> FALSE, steps |-> s] :
          s \in StepListsWithDependencies(longest)}

\* ------------------------------------------------ step executor outcomes
\* An error the agent call raises: its class, whether it is an
\* openai.BadRequestError, and which of the substrings the handlers look for
\* occur in str(e).
Errors ==
  { [cls |-> "content", isBadRequest |-> TRUE, text |-> {"400", "Content Exists Risk"}],
    [cls |-> "content", isBadRequest |-> TRUE, text |-> {"400", "content moderation"}],
    [cls |-> "rate", isBadRequest |-> FALSE, text |-> {"429"}],
    [cls |-> "rate", isBadRequest |-> FALSE, text |-> {"429", "400"}],
    [cls |-> "malformed", isBadRequest |-> TRUE, text |-> {"400"}],
    [cls |-> "other", isBadRequest |-> FALSE, text |-> {}] }
NoError == [cls |-> "none", isBadRequest |-> FALSE, text |-> {}]

\* a response of 20,000 characters, and what is left of it once the middle
\* is cut out
LongFinding == "long finding"
TruncatedFinding == "head of long finding [truncated, 20000] tail of long finding"
Outcomes ==
  {[kind |-> "ok", content |-> c, err |-> NoError] : c \in {"finding", LongFinding, ""}}
  \cup {[kind |-> "raise", content |-> "", err |-> e] : e \in Errors}
NoOutcome == [kind |-> "none", content |-> "", err |-> NoError]
IsFault(o) == o.kind = "raise" \/ o.content = ""

\* ---------------------------------------------------------- token manager
\* src/utils/token_manager.py and src/utils/token_counter.py. A message is
\* its class, the length of its content in characters, and the place it had
\* in the list first handed to the token manager (what tells two messages of
\* equal class and length apart).
SystemMessage == "SystemMessage"
HumanMessage == "HumanMessage"
AIMessage == "AIMessage"
MessageTypes == {SystemMessage, HumanMessage, AIMessage}
ContentLengths == {180, 560, 20000}
Messages(n) == [id : {n}, type : MessageTypes, length : ContentLengths]

\* every list of at most n messages
RECURSIVE MessageLists(_)
MessageLists(n) ==
  IF n = 0 THEN {<<>>}
  ELSE LET shorter == MessageLists(n - 1)
       IN shorter \cup {Append(l, m) : l \in {x \in shorter : Len(x) = n - 1},
                                      m \in Messages(n)}

Reverse(l) == [k \in 1..Len(l) |-> l[Len(l) + 1 - k]]
Largest(S) == CHOOSE x \in S : \A y \in S : y <= x

\* the models of model_limits, and a model that is not listed
ModelNames == {"deepseek-chat", "gemini-2.0-flash", "some-other-model"}

\* get_model_limit over model_limits of _get_fallback_config
get_model_limit(model_name) ==
  CASE model_name = "deepseek-chat" -> 32768
    [] model_name = "gemini-2.0-flash" -> 1000000
    [] OTHER -> 4096

\* TokenCounterFactory._get_chars_per_token, in tenths of a character
\* (CHARS_PER_TOKEN_MAPPING: gemini 3.5, deepseek 4.0, default 4.0)
_get_chars_per_token(model_name) ==
  IF model_name = "gemini-2.0-flash" THEN 35 ELSE 40

\* ApproximateTokenCounter.count_tokens on a text of this length:
\* max(1, int(len(text) / chars_per_token) + overhead), 0 for the empty text
count_tokens(length, model_name) ==
  IF length = 0 THEN 0
  ELSE LET n == (length * 10) \div _get_chars_per_token(model_name) + 5
       IN IF n < 1 THEN 1 ELSE n

\* ApproximateTokenCounter.count_messages_tokens: per message the content's
\* tokens and role_overhead 3, and structure_overhead 2 per message
RECURSIVE count_messages_tokens(_, _)
count_messages_tokens(messages, model_name) ==
  IF messages = <<>> THEN 0
  ELSE count_tokens(messages[1].length, model_name) + 3 + 2
       + count_messages_tokens(Tail(messages), model_name)

\* get_trimming_strategy(node_name): the node's entry of trimming_strategies,
\* NoStrategy ({}) for a node without one. max_tokens 0 stands for a missing
\* or zero max_tokens, both "not max_tokens".
NoStrategy ==
  [max_tokens |-> 0, strategy |-> "none", include_system |-> FALSE,
   reserve_for_output |-> 0]
MaxTokensChoices == {50, 60, 250, 25000}
ReserveChoices == {0, 40000}
Strategies ==
  [max_tokens : MaxTokensChoices, strategy : {"first", "last"},
   include_system : BOOLEAN, reserve_for_output : {0}]
  \cup [max_tokens : {0}, strategy : {"first", "last"},
        include_system : BOOLEAN, reserve_for_output : ReserveChoices]

VARIABLES
  tm_safety_margin,     \* TOKEN_MANAGEMENT.safety_margin, in percent
  tm_budget             \* what calculate_available_tokens returned

\* safety_margin 0.2 of _get_fallback_config, and other configured margins
\* (in percent; above 100 the effective limit is negative)
DefaultSafetyMargin == 20
SafetyMargins == {0, DefaultSafetyMargin, 50, 100, 150}

\* Python's int() of numerator / 100: truncation towards zero
IntPercent(numerator) ==
  IF numerator >= 0 THEN numerator \div 100 ELSE 0 - ((0 - numerator) \div 100)

\* a calculate_available_tokens that returns the difference as it is
calculate_available_tokens_nofloor(model_name, strategy) ==
  LET effective_limit == IntPercent(get_model_limit(model_name) * (100 - tm_safety_margin))
      available_tokens == effective_limit - strategy.reserve_for_output
  IN available_tokens

\* calculate_available_tokens: int(model_limit * (1 - safety_margin)) less
\* reserve_for_output, and "return max(available_tokens, 1000)"
calculate_available_tokens(model_name, strategy) ==
  LET effective_limit == IntPercent(get_model_limit(model_name) * (100 - tm_safety_margin))
      available_tokens == effective_limit - strategy.reserve_for_output
  IN IF available_tokens > 1000 THEN available_tokens ELSE 1000

\* "max_tokens = strategy.get("max_tokens"); if not max_tokens: ..."
MaxTokens(model_name, strategy) ==
  IF strategy.max_tokens = 0 THEN calculate_available_tokens(model_name, strategy)
  ELSE strategy.max_tokens

\* a _first_max_tokens that keeps one message more than fits
_first_max_tokens_more(messages, max_tokens, model_name) ==
  LET fits == {k \in 1..Len(messages) :
                 count_messages_tokens(SubSeq(messages, 1, k), model_name) <= max_tokens}
      idx == IF fits = {} THEN 0 ELSE Largest(fits)
  IN SubSeq(messages, 1, IF idx < Len(messages) THEN idx + 1 ELSE idx)

\* langchain_core's _first_max_tokens: the longest prefix whose count is
\* within max_tokens, the empty list when not even the first message is
_first_max_tokens(messages, max_tokens, model_name) ==
  LET fits == {k \in 1..Len(messages) :
                 count_messages_tokens(SubSeq(messages, 1, k), model_name) <= max_tokens}
  IN IF fits = {} THEN <<>> ELSE SubSeq(messages, 1, Largest(fits))

\* langchain_core's _last_max_tokens, which the releases implement in two
\* ways. "swap": a leading SystemMessage (with include_system) stays first,
\* the rest is reversed, and _first_max_tokens runs on that list. "reserve":
\* the leading SystemMessage is set aside and kept, and the rest is trimmed
\* to what max_tokens leaves after it.
Libraries == {"swap", "reserve"}
_last_max_tokens(messages, max_tokens, include_system, model_name, library) ==
  IF messages = <<>> THEN <<>>
  ELSE LET pinned == include_system /\ messages[1].type = SystemMessage IN
       IF ~pinned
       THEN Reverse(_first_max_tokens(Reverse(messages), max_tokens, model_name))
       ELSE IF library = "swap"
       THEN LET kept == _first_max_tokens(<<messages[1]>> \o Reverse(Tail(messages)),
                                          max_tokens, model_name)
            IN IF kept = <<>> THEN <<>> ELSE <<kept[1]>> \o Reverse(Tail(kept))
       ELSE LET system_tokens == count_messages_tokens(<<messages[1]>>, model_name)
                remaining_tokens == IF max_tokens > system_tokens
                                    THEN max_tokens - system_tokens ELSE 0
            IN <<messages[1]>>
               \o Reverse(_first_max_tokens(Reverse(Tail(messages)), remaining_tokens,
                                            model_name))

\* langchain_core's trim_messages as trim_messages_for_node calls it (no
\* start_on, end_on or allow_partial): include_system with strategy "first"
\* raises ValueError
trim_messages(messages, max_tokens, strategy, include_system, model_name, library) ==
  IF strategy = "first" /\ include_system
  THEN [raised |-> TRUE, messages |-> <<>>]
  ELSE [raised |-> FALSE,
        messages |-> IF strategy = "first"
                     THEN _first_max_tokens(messages, max_tokens, model_name)
                     ELSE _last_max_tokens(messages, max_tokens, include_system,
                                           model_name, library)]

IsSystem(m) == m.type = SystemMessage
IsOther(m) == m.type # SystemMessage

\* the Python slice other_messages[-max_messages:], which is the whole list
\* for max_messages = 0
RecentSlice(other_messages, max_messages) ==
  IF max_messages = 0 \/ max_messages >= Len(other_messages) THEN other_messages
  ELSE SubSeq(other_messages, Len(other_messages) - max_messages + 1, Len(other_messages))

\* a fallback that returns every message after the system messages
_fallback_trim_all(messages, max_messages) ==
  SelectSeq(messages, IsSystem) \o messages

_fallback_trim(messages, max_messages) ==
  IF Len(messages) <= max_messages THEN messages
  ELSE SelectSeq(messages, IsSystem)
       \o RecentSlice(SelectSeq(messages, IsOther), max_messages)

\* trim_messages_for_node: the returned list and the way it came about
trim_messages_for_node(messages, model_name, enabled, strategy, library) ==
  IF ~enabled THEN [outcome |-> "disabled", messages |-> messages]
  ELSE IF strategy = NoStrategy THEN [outcome |-> "no_strategy", messages |-> messages]
  ELSE LET max_tokens == MaxTokens(model_name, strategy)
           trimmed == trim_messages(messages, max_tokens, strategy.strategy,
                                    strategy.include_system, model_name, library)
       IN IF trimmed.raised
          THEN [outcome |-> "fallback",
                messages |-> _fallback_trim(messages, max_tokens \div 100)]
          ELSE [outcome |-> "trimmed", messages |-> trimmed.messages]

\* ---------------------------------------------------------- observations
\* An observation is known by its place in the input and its length; what
\* manage_observations returns are observations as they were ("full"),
\* head and tail excerpts ("summary"), cut ones ("truncated") and the
\* marker of the older ones ("marker").
MaxObservations == 3
ObservationLengths == {20, 300, 3000, 6000}
Observation(i, length) == [kind |-> "full", id |-> i, length |-> length, older |-> 0]
ObservationLists(n) ==
  UNION {{[i \in 1..k |-> Observation(i, f[i])] : f \in [1..k -> ObservationLengths]}
         : k \in 0..n}
ObservationManagement ==
  [enabled : BOOLEAN, max_full_observations : {0, 1, 3},
   max_observation_length : {1000, 5000}, enable_summarization : BOOLEAN,
   summary_target_length : {0, 1000}]

\* min(a, b)
Min(a, b) == IF a < b THEN a ELSE b

\* len("\n\n[... content truncated ...]\n\n"), len("\n\n[... truncated ...]")
\* and len("[N earlier observations summarized]") for a one-digit N
ContentTruncatedLength == 31
TruncatedLength == 21
SummaryPrefixLength == 35

\* obs[:summary_target_length//2] + "\n\n[... content truncated ...]\n\n"
\* + obs[-summary_target_length//2:], where -t//2 is -ceil(t/2) and the slice
\* obs[-0:] is the whole string
Summary(obs, summary_target_length) ==
  LET head == Min(obs.length, summary_target_length \div 2)
      behind == (summary_target_length + 1) \div 2
      tail == IF behind = 0 THEN obs.length ELSE Min(obs.length, behind)
  IN [kind |-> "summary", id |-> obs.id, length |-> head + ContentTruncatedLength + tail,
      older |-> 0]

\* obs[:max_length] + "\n\n[... truncated ...]"
Truncated(obs, max_length) ==
  [kind |-> "truncated", id |-> obs.id,
   length |-> Min(obs.length, max_length) + TruncatedLength, older |-> 0]

\* f"[{older_count} earlier observations summarized]"
SummaryPrefix(older_count) ==
  [kind |-> "marker", id |-> 0, length |-> SummaryPrefixLength, older |-> older_count]

\* TokenManager.manage_observations
manage_observations(obs_list, cfg) ==
  LET max_observations == cfg.max_full_observations
      managed_observations ==
        [i \in 1..Len(obs_list) |->
           IF obs_list[i].length <= cfg.max_observation_length THEN obs_list[i]
           ELSE IF cfg.enable_summarization
                THEN Summary(obs_list[i], cfg.summary_target_length)
                ELSE Truncated(obs_list[i], cfg.max_observation_length)]
      recent_observations == RecentSlice(managed_observations, max_observations)
      older_count == Len(managed_observations) - max_observations
  IN IF ~cfg.enabled THEN obs_list
     ELSE IF Len(managed_observations) > max_observations
          THEN IF cfg.enable_summarization
               THEN <<SummaryPrefix(older_count)>> \o recent_observations
               ELSE recent_observations
          ELSE managed_observations

VARIABLES
  variant,              \* which graph build_graph compiled
  max_plan_iterations,  \* configurable.max_plan_iterations
  auto_accepted_plan,   \* state["auto_accepted_plan"]
  node,                 \* the node about to run; "__end__" or "raised" when over
  current_plan,         \* state["current_plan"]
  plan_iterations,      \* state["plan_iterations"]
  observations,         \* state["observations"]
  messages,             \* state["messages"], each entry by the role that wrote it
  investigation,        \* (database_)background investigation results
  final_report,         \* state["final_report"]
  plannerCalls,         \* history: calls of the planning model
  planned,              \* history: steps the planning model has planned
  editCount,            \* history: [EDIT_PLAN] decisions
  faults,               \* history: executor calls that raised or returned ""
  routed,               \* history: what the router picked last
  executed,             \* history: the steps executors ran on the current plan
  last                  \* history: what the last node did

VARIABLES
  tm_enabled,           \* TOKEN_MANAGEMENT.enabled
  tm_strategy,          \* get_trimming_strategy(node_name)
  tm_model,             \* model_name
  tm_library,           \* which _last_max_tokens the installed library has
  tm_input,             \* the messages handed to trim_messages_for_node
  tm_output,            \* what it returned
  tm_outcome,           \* how: disabled, no_strategy, trimmed or fallback
  tm_calls              \* calls made so far

VARIABLES
  tc_available,         \* whether tiktoken and the model's encoding can be loaded
  tc_separator,         \* tokens the encoding makes of a newline joining two messages
  tc_counters,          \* TokenManager._token_counters: model name -> counter (0: no entry)
  tc_instances,         \* the counters created so far
  tc_cache,             \* the lru_cache of TiktokenCounter.count_tokens
  tc_pc,                \* where each concurrent call of the token counter is
  tc_model,             \* its model_name
  tc_messages,          \* its messages
  tc_counter,           \* its local variable counter
  tc_result,            \* what its last call returned
  tc_calls              \* calls it has made

VARIABLES
  om_config,            \* TOKEN_MANAGEMENT.enabled and observation_management
  om_input,             \* the observations handed to manage_observations
  om_output,            \* what it returned
  om_calls              \* calls made so far

VARIABLES
  vd_plan,              \* the plan handed to validate_step_dependencies
  vd_errors,            \* the list it returned
  vd_calls              \* calls made so far

tokenVars == <<tm_enabled, tm_strategy, tm_model, tm_library, tm_input, tm_output,
               tm_outcome, tm_calls>>
budgetVars == <<tm_safety_margin, tm_budget>>
counterVars == <<tc_available, tc_separator, tc_counters, tc_instances, tc_cache, tc_pc,
                 tc_model, tc_messages, tc_counter, tc_result, tc_calls>>
observationVars == <<om_config, om_input, om_output, om_calls>>
validationVars == <<vd_plan, vd_errors, vd_calls>>
managerVars == <<tokenVars, budgetVars, counterVars, observationVars, validationVars>>

vars == <<variant, max_plan_iterations, auto_accepted_plan, node, current_plan,
          plan_iterations, observations, messages, investigation, final_report,
          plannerCalls, planned, editCount, faults, routed, executed, last,
          tm_enabled, tm_strategy, tm_model, tm_library, tm_input, tm_output,
          tm_outcome, tm_calls, tm_safety_margin, tm_budget,
          tc_available, tc_separator, tc_counters, tc_instances, tc_cache, tc_pc,
          tc_model, tc_messages, tc_counter, tc_result, tc_calls,
          om_config, om_input, om_output, om_calls,
          vd_plan, vd_errors, vd_calls>>

config == <<variant, max_plan_iterations, auto_accepted_plan>>
history == <<plannerCalls, planned, editCount, faults, routed, executed>>

NoRoute == [target |-> "none", idx |-> 0]
Did(op) ==
  [op |-> op, agent |-> "none", idx |-> 0, outcome |-> NoOutcome, payload |-> "",
   context |-> {}, findings |-> {}]

\* no call of the token manager under way
TokenManagerIdle ==
  /\ tm_enabled = FALSE
  /\ tm_strategy = NoStrategy
  /\ tm_model = "deepseek-chat"
  /\ tm_library = "swap"
  /\ tm_input = <<>>
  /\ tm_output = <<>>
  /\ tm_outcome = "idle"
  /\ tm_calls = 0
  /\ tm_safety_margin = DefaultSafetyMargin
  /\ tm_budget = 0

\* the concurrent calls of the token counter, and the models they count for
Threads == {1, 2}
CounterModels == {"gpt-4", "gemini-2.0-flash"}

\* "self._token_counters = {}", and no call of the token counter under way
CounterIdle ==
  /\ tc_counters = [m \in CounterModels |-> 0]
  /\ tc_instances = <<>>
  /\ tc_cache = {}
  /\ tc_pc = [t \in Threads |-> "idle"]
  /\ tc_model = [t \in Threads |-> "gpt-4"]
  /\ tc_messages = [t \in Threads |-> <<>>]
  /\ tc_counter = [t \in Threads |-> 0]
  /\ tc_result = [t \in Threads |-> 0]
  /\ tc_calls = [t \in Threads |-> 0]

\* observation_management of _get_fallback_config
DefaultObservationManagement ==
  [enabled |-> TRUE, max_full_observations |-> 3, max_observation_length |-> 5000,
   enable_summarization |-> TRUE, summary_target_length |-> 1000]

\* no call of manage_observations under way
ObservationsIdle ==
  /\ om_config = DefaultObservationManagement
  /\ om_input = <<>>
  /\ om_output = <<>>
  /\ om_calls = 0

\* no call of validate_step_dependencies under way
ValidationIdle ==
  /\ vd_plan = <<>>
  /\ vd_errors = <<>>
  /\ vd_calls = 0

\* a process without tiktoken
NoTiktoken == tc_available = FALSE /\ tc_separator = 0

\* the graph state a run starts with
RunStart ==
  /\ node = "coordinator"
  /\ current_plan = NoPlan
  /\ plan_iterations = 0
  /\ observations = <<>>
  /\ messages = <<"user">>
  /\ investigation = None
  /\ final_report = None
  /\ plannerCalls = 0
  /\ planned = 0
  /\ editCount = 0
  /\ faults = 0
  /\ routed = NoRoute
  /\ executed = <<>>
  /\ last = Did("start")

Init ==
  /\ variant \in Variants
  /\ max_plan_iterations \in 0..MaxIter
  /\ auto_accepted_plan \in BOOLEAN
  /\ RunStart
  /\ TokenManagerIdle
  /\ CounterIdle /\ NoTiktoken
  /\ ObservationsIdle
  /\ ValidationIdle

\* ------------------------------------------------------------ coordinator
\* goto "__end__" without tool calls, otherwise the planner, or the
\* background investigator when enable_background_investigation is set
coordinator_node ==
  /\ node = "coordinator"
  /\ \E handoff \in BOOLEAN, enable_background_investigation \in BOOLEAN :
       node' = IF ~handoff THEN "__end__"
               ELSE IF enable_background_investigation THEN "background_investigator"
               ELSE "planner"
  /\ last' = Did("coordinator")
  /\ UNCHANGED <<managerVars, config, current_plan, plan_iterations, observations, messages,
                 investigation, final_report, history>>

background_investigation_node ==
  /\ node = "background_investigator"
  /\ variant # "database"
  /\ investigation' = "results"
  /\ node' = "planner"
  /\ last' = Did("background_investigator")
  /\ UNCHANGED <<managerVars, config, current_plan, plan_iterations, observations, messages,
                 final_report, history>>

\* the investigation's text, or "" when it failed
database_investigation_node ==
  /\ node = "background_investigator"
  /\ variant = "database"
  /\ \E ok \in BOOLEAN :
       /\ investigation' = IF ok THEN "results" ELSE ""
       /\ messages' = IF ok THEN messages \o <<"background_investigator", "background_investigator">>
                      ELSE Append(messages, "background_investigator")
  /\ node' = "planner"
  /\ last' = Did("background_investigator")
  /\ UNCHANGED <<managerVars, config, current_plan, plan_iterations, observations,
                 final_report, history>>

\* ---------------------------------------------------------------- planner
\* a cap that lets one more planning round through
IterationCapReached_after(iterations, cap) == iterations > cap

\* "if plan_iterations >= configurable.max_plan_iterations"
IterationCapReached(iterations, cap) == iterations >= cap

\* a parse failure that always goes on to the reporter
ParseFailureGoto_reporter(iterations) == "reporter"

\* where a response that is no JSON sends the run
ParseFailureGoto(iterations) == IF iterations > 0 THEN "reporter" ELSE "__end__"

\* planner_node and planner_node_with_dependencies decide alike: the second
\* only logs what validate_step_dependencies reports
PlannerStep ==
  /\ node = "planner"
  /\ IF IterationCapReached(plan_iterations, max_plan_iterations)
     THEN /\ node' = "reporter"
          /\ last' = Did("planner_cap")
          /\ UNCHANGED <<current_plan, messages, plannerCalls, planned, executed>>
     ELSE \E response \in (IF variant = "enhanced"
                           THEN PlannerResponsesWithDependencies(MaxSteps - planned)
                           ELSE PlannerResponses(MaxSteps - planned)) :
            /\ plannerCalls' = plannerCalls + 1
            /\ planned' = planned + Len(response.steps)
            /\ IF ~response.valid
               THEN /\ node' = ParseFailureGoto(plan_iterations)
                    /\ last' = Did("planner_parse_error")
                    /\ UNCHANGED <<current_plan, messages, executed>>
               ELSE IF response.has_enough_context
               THEN /\ node' = "reporter"
                    /\ current_plan' = Plan(response)
                    /\ messages' = Append(messages, "planner")
                    /\ executed' = <<>>
                    /\ last' = Did("planner_enough_context")
               ELSE /\ node' = "human_feedback"
                    /\ current_plan' = RawPlan(response)
                    /\ messages' = Append(messages, "planner")
                    /\ executed' = <<>>
                    /\ last' = Did("planner_plan")
  /\ UNCHANGED <<managerVars, config, plan_iterations, observations, investigation, final_report,
                 editCount, faults, routed>>

planner_node == variant = "base" /\ PlannerStep

planner_node_with_dependencies == variant = "enhanced" /\ PlannerStep

\* ---------------------------------------------------------- human feedback
\* what the caller resumes the interrupt with
Payloads ==
  {"[EDIT_PLAN] add a step", "[edit_plan] add a step", "[ACCEPTED]", "[accepted]",
   "looks good", ""}

\* str.upper() on the payloads
Upper(p) ==
  CASE p = "[edit_plan] add a step" -> "[EDIT_PLAN] ADD A STEP"
    [] p = "[EDIT_PLAN] add a step" -> "[EDIT_PLAN] ADD A STEP"
    [] p = "[accepted]" -> "[ACCEPTED]"
    [] p = "looks good" -> "LOOKS GOOD"
    [] OTHER -> p

\* str.startswith() on the payloads and their upper-case forms
StartsWith(s, prefix) ==
  \/ prefix = "[EDIT_PLAN]" /\ s \in {"[EDIT_PLAN] add a step", "[EDIT_PLAN] ADD A STEP"}
  \/ prefix = "[ACCEPTED]" /\ s = "[ACCEPTED]"

\* the if / elif without the raising else: what is no edit counts as accepted
FeedbackDecision_noelse(feedback) ==
  IF ~Falsy(feedback) /\ StartsWith(Upper(feedback), "[EDIT_PLAN]") THEN "edit"
  ELSE "accepted"

\* the if / elif / else on the interrupt's value
FeedbackDecision(feedback) ==
  IF ~Falsy(feedback) /\ StartsWith(Upper(feedback), "[EDIT_PLAN]") THEN "edit"
  ELSE IF ~Falsy(feedback) /\ StartsWith(Upper(feedback), "[ACCEPTED]") THEN "accepted"
  ELSE "unsupported"

\* the increment left out
IncrementIterations_none(n) == n

\* "plan_iterations += 1"
IncrementIterations(n) == n + 1

\* "if the plan is accepted, run the following node"
AcceptPlan(payload) ==
  IF ~current_plan.valid
  THEN /\ node' = IF IncrementIterations(plan_iterations) > 1 THEN "reporter" ELSE "__end__"
       /\ last' = [Did("accept_parse_error") EXCEPT !.payload = payload]
       /\ UNCHANGED <<current_plan, plan_iterations, messages, editCount>>
  ELSE /\ node' = IF current_plan.has_enough_context THEN "reporter" ELSE "research_team"
       /\ current_plan' = Plan(current_plan)
       /\ plan_iterations' = IncrementIterations(plan_iterations)
       /\ last' = [Did("accepted") EXCEPT !.payload = payload]
       /\ UNCHANGED <<messages, editCount>>

human_feedback_node ==
  /\ node = "human_feedback"
  /\ IF auto_accepted_plan
     THEN AcceptPlan("")
     ELSE \E feedback \in Payloads :
            /\ FeedbackDecision(feedback) = "edit" => editCount < MaxEdits
            /\ IF FeedbackDecision(feedback) = "edit"
               THEN /\ node' = "planner"
                    /\ messages' = Append(messages, "feedback")
                    /\ editCount' = editCount + 1
                    /\ last' = [Did("edit_plan") EXCEPT !.payload = feedback]
                    /\ UNCHANGED <<current_plan, plan_iterations>>
               ELSE IF FeedbackDecision(feedback) = "accepted"
               THEN AcceptPlan(feedback)
               ELSE /\ node' = "raised"
                    /\ last' = [Did("unsupported_feedback") EXCEPT !.payload = feedback]
                    /\ UNCHANGED <<current_plan, plan_iterations, messages, editCount>>
  /\ UNCHANGED <<managerVars, config, observations, investigation, final_report, plannerCalls,
                 planned, faults, routed, executed>>

\* ------------------------------------------------------------------ router
\* index of the first step without a (truthy) execution_res, 0 when none
FirstIncomplete(steps) ==
  LET left == {i \in 1..Len(steps) : Falsy(steps[i].execution_res)}
  IN IF left = {} THEN 0 ELSE CHOOSE i \in left : \A j \in left : i <= j

continue_to_running_research_team(plan) ==
  IF plan.kind = "none" \/ plan.steps = <<>> THEN "planner"
  ELSE IF \A i \in 1..Len(plan.steps) : ~Falsy(plan.steps[i].execution_res) THEN "planner"
  ELSE IF FirstIncomplete(plan.steps) = 0 THEN "planner"
  ELSE IF plan.steps[FirstIncomplete(plan.steps)].step_type = RESEARCH THEN "researcher"
  ELSE "coder"

research_team_node ==
  /\ node = "research_team"
  /\ variant # "database"
  /\ node' = continue_to_running_research_team(current_plan)
  /\ routed' = [target |-> continue_to_running_research_team(current_plan),
                idx |-> FirstIncomplete(current_plan.steps)]
  /\ last' = Did("research_team")
  /\ UNCHANGED <<managerVars, config, current_plan, plan_iterations, observations, messages,
                 investigation, final_report, plannerCalls, planned, editCount, faults,
                 executed>>

\* ------------------------------------------------------- step executors
\* an update that leaves only the updated step in the plan
WithStep_only(plan, i, st) == [plan EXCEPT !.steps = <<st>>]

\* the plan with step i replaced by st (the step object is mutated in place)
WithStep(plan, i, st) == [plan EXCEPT !.steps[i] = st]

\* "for step in current_plan.steps: if not step.execution_res": index of the
\* step _execute_agent_step and _execute_database_agent_step pick, 0 when none
FirstUnexecuted(steps) ==
  LET left == {i \in 1..Len(steps) : Falsy(steps[i].execution_res)}
  IN IF left = {} THEN 0 ELSE CHOOSE i \in left : \A j \in left : i <= j

\* "if step_status == ExecutionStatus.PENDING and not step.execution_res":
\* index of the step _execute_agent_step_with_dependencies picks, 0 when none
FirstPending(steps) ==
  LET left == {i \in 1..Len(steps) :
                 steps[i].execution_status = PENDING /\ Falsy(steps[i].execution_res)}
  IN IF left = {} THEN 0 ELSE CHOOSE i \in left : \A j \in left : i <= j

\* ContentSafetyHandler.is_content_safety_error
SafetyKeywords ==
  {"Content Exists Risk", "content safety", "content moderation",
   "inappropriate content", "harmful content"}
is_content_safety_error(e) == e.isBadRequest /\ e.text \cap SafetyKeywords # {}

\* the texts the executors store
SafeResponse == "content safety notice: risky content filtered, continuing"
StepExecutionFailed == "Step execution failed"
DbStepFailed == "database step failed: <error>"
DbCompletedNote == "database step '<title>' completed (strategy)"
DbFailedNote == "database step '<title>' failed"

\* the except branch of _execute_agent_step_with_dependencies: what it
\* stores on the step for an error with this text
EnhancedFailure(e) ==
  IF "Content Exists Risk" \in e.text
  THEN [execution_status |-> SKIPPED, error_message |-> "Content Exists Risk: <error>",
        execution_res |-> "Step skipped due to content safety restrictions."]
  ELSE IF "400" \in e.text \/ "BadRequestError" \in e.text
  THEN [execution_status |-> FAILED, error_message |-> "API Error: <error>",
        execution_res |-> "Step failed due to API error."]
  ELSE IF "429" \in e.text \/ "rate_limit" \in e.text
  THEN [execution_status |-> RATE_LIMITED, error_message |-> "Rate Limit: <error>",
        execution_res |-> "Step failed due to API rate limit."]
  ELSE [execution_status |-> FAILED, error_message |-> "Unexpected Error: <error>",
        execution_res |-> "Step failed due to unexpected error."]

\* "message_content = current_step.execution_res if current_step.execution_res else ..."
MessageContent(res) == IF Falsy(res) THEN StepExecutionFailed ELSE res

Ran(agent_name, i, o) ==
  [op |-> "exec", agent |-> agent_name, idx |-> i, outcome |-> o, payload |-> "",
   context |-> {}, findings |-> {}]

\* build_context_for_step without the range check on dep_index
build_context_for_step_norange(current_step_index, completed_steps, plan) ==
  LET current_step_def == plan.steps[current_step_index] IN
  IF current_step_def.depends_on = {} \/ current_step_def.dependency_type = "none"
  THEN {}
  ELSE {dep_index \in current_step_def.depends_on : dep_index <= Len(plan.steps)}

\* build_context_for_step: the earlier steps whose finding (or status note)
\* goes into the context of the step at current_step_index; a dependency
\* index beyond completed_steps is skipped with a warning
build_context_for_step(current_step_index, completed_steps, plan) ==
  LET current_step_def == plan.steps[current_step_index] IN
  IF current_step_def.depends_on = {} \/ current_step_def.dependency_type = "none"
  THEN {}
  ELSE {dep_index \in current_step_def.depends_on : dep_index <= Len(completed_steps)}

\* len(obs) of a stored observation: an agent's findings run to thousands of
\* characters, the notes and notices are short
ObservationLength(obs) ==
  CASE obs = "" -> 0 [] obs = "finding" -> 6000 [] obs = LongFinding -> 20000
    [] obs = TruncatedFinding -> 15035 [] OTHER -> 60

\* generate_step_summary(execution_result, max_length = 500)
generate_step_summary(execution_result) ==
  IF Falsy(execution_result) THEN "No results available"
  ELSE IF ObservationLength(execution_result) <= 500 THEN execution_result
  ELSE "summary of the " \o execution_result

\* What build_context_for_step writes for each dependency it takes: for one
\* that is not completed the status in the heading and, in finding tags, its
\* execution_res if it has one; for a completed one its summary or its
\* execution_res.
DependencyFindings(current_step_index, completed_steps, plan) ==
  LET current_step_def == plan.steps[current_step_index]
      Written(dep_index) ==
        LET dep_step == completed_steps[dep_index] IN
        IF dep_step.execution_status # COMPLETED
        THEN [dep |-> dep_index, status_note |-> TRUE,
              text |-> IF Falsy(dep_step.execution_res)
                       THEN "No results available due to execution failure."
                       ELSE dep_step.execution_res]
        ELSE [dep |-> dep_index, status_note |-> FALSE,
              text |-> IF current_step_def.dependency_type = "summary"
                       THEN generate_step_summary(dep_step.execution_res)
                       ELSE dep_step.execution_res]
      taken == build_context_for_step(current_step_index, completed_steps, plan)
  IN {Written(d) : d \in {x \in taken : x <= Len(completed_steps)}}

\* completed_steps_info of _execute_agent_step and of
\* _execute_database_agent_step: the execution_res of every completed step,
\* in finding tags
completed_steps_info(completed_steps) ==
  {[dep |-> j, status_note |-> FALSE, text |-> completed_steps[j].execution_res] :
     j \in 1..Len(completed_steps)}

\* the agent's outcome, within the run's budget of faulty calls; a response
\* over max_response_length is taken for the first executor call of a run's
\* first plan only (what an executor does with a response does not depend
\* on the step)
AgentCall(o) ==
  /\ o \in Outcomes
  /\ o.content = LongFinding => observations = <<>> /\ executed = <<>> /\ plannerCalls = 1
  /\ IsFault(o) => faults < MaxFaults
  /\ faults' = IF IsFault(o) THEN faults + 1 ELSE faults

\* "max_observations = 5": managed_observations, the last five of
\* updated_observations, is put into update_dict
ExecutorMaxObservations == 5
ExecutorManaged(updated_observations) ==
  IF Len(updated_observations) > ExecutorMaxObservations
  THEN RecentSlice(updated_observations, ExecutorMaxObservations)
  ELSE updated_observations

\* the Command returned carries "observations": observations + [response_content];
\* "max_response_length = 15000" and the cut of _execute_agent_step:
\* str(response_content)[:half_length] + marker + str(response_content)[-half_length:]
\* (the marker, with the original length in it, has 35 characters)
max_response_length == 15000
TruncateResponse(response_content) ==
  IF ObservationLength(response_content) > max_response_length
  THEN TruncatedFinding ELSE response_content

\* update_dict is built and dropped
CommandObservations(updated_observations, managed_observations) == updated_observations

_execute_agent_step(agent_name) ==
  LET i == FirstUnexecuted(current_plan.steps) IN
  IF i = 0
  THEN /\ node' = "research_team"
       /\ last' = Did("exec_no_step")
       /\ UNCHANGED <<current_plan, observations, messages, faults, executed>>
  ELSE \E o \in Outcomes :
         /\ AgentCall(o)
         /\ last' = [Ran(agent_name, i, o) EXCEPT !.findings =
                       completed_steps_info(SubSeq(current_plan.steps, 1, i - 1))]
         /\ executed' = Append(executed, i)
         /\ IF o.kind = "raise" /\ ~is_content_safety_error(o.err)
            THEN /\ node' = "raised"
                 /\ UNCHANGED <<current_plan, observations, messages>>
            ELSE LET response_content ==
                       IF o.kind = "raise" THEN SafeResponse ELSE TruncateResponse(o.content)
                 IN /\ current_plan' =
                         WithStep(current_plan, i,
                                  [current_plan.steps[i] EXCEPT !.execution_res = response_content])
                    /\ observations' =
                         CommandObservations(
                           Append(observations, response_content),
                           ExecutorManaged(Append(observations, response_content)))
                    /\ messages' = Append(messages, "agent")
                    /\ node' = "research_team"

_execute_agent_step_with_dependencies(agent_name) ==
  LET i == FirstPending(current_plan.steps) IN
  IF i = 0
  THEN /\ node' = "research_team"
       /\ last' = Did("exec_no_step")
       /\ UNCHANGED <<current_plan, observations, messages, faults, executed>>
  ELSE \E o \in Outcomes :
         /\ AgentCall(o)
         /\ last' = [Ran(agent_name, i, o) EXCEPT
                       !.context =
                         build_context_for_step(i, SubSeq(current_plan.steps, 1, i - 1),
                                                current_plan),
                       !.findings =
                         DependencyFindings(i, SubSeq(current_plan.steps, 1, i - 1),
                                            current_plan)]
         /\ executed' = Append(executed, i)
         /\ LET st == IF o.kind = "ok"
                      THEN [current_plan.steps[i] EXCEPT !.execution_res = o.content,
                                                         !.execution_status = COMPLETED]
                      ELSE [current_plan.steps[i] EXCEPT
                              !.execution_status = EnhancedFailure(o.err).execution_status,
                              !.error_message = EnhancedFailure(o.err).error_message,
                              !.execution_res = EnhancedFailure(o.err).execution_res]
            IN /\ current_plan' = WithStep(current_plan, i, st)
               /\ observations' = Append(observations, MessageContent(st.execution_res))
               /\ messages' = Append(messages, "agent")
               /\ node' = "research_team"

_execute_database_agent_step(agent_name) ==
  LET i == FirstUnexecuted(current_plan.steps) IN
  IF current_plan.kind = "none" \/ i = 0
  THEN /\ node' = "research_team"
       /\ last' = Did("exec_no_step")
       /\ UNCHANGED <<current_plan, observations, messages, faults, executed>>
  ELSE \E o \in Outcomes :
         /\ AgentCall(o)
         /\ last' = [Ran(agent_name, i, o) EXCEPT !.findings =
                       completed_steps_info(SubSeq(current_plan.steps, 1, i - 1))]
         /\ executed' = Append(executed, i)
         /\ node' = "research_team"
         /\ IF o.kind = "ok"
            THEN /\ current_plan' =
                      WithStep(current_plan, i,
                               [current_plan.steps[i] EXCEPT !.execution_res = o.content])
                 /\ observations' = Append(observations, DbCompletedNote)
                 /\ messages' = Append(messages, "agent")
            ELSE /\ current_plan' =
                      WithStep(current_plan, i,
                               [current_plan.steps[i] EXCEPT !.execution_res = DbStepFailed])
                 /\ observations' = Append(observations, DbFailedNote)
                 /\ UNCHANGED messages

ExecFrame ==
  UNCHANGED <<managerVars, config, plan_iterations, investigation, final_report, plannerCalls,
              planned, editCount, routed>>

researcher_node ==
  node = "researcher" /\ variant = "base" /\ _execute_agent_step("researcher") /\ ExecFrame

coder_node ==
  node = "coder" /\ variant = "base" /\ _execute_agent_step("coder") /\ ExecFrame

researcher_node_with_dependencies ==
  /\ node = "researcher" /\ variant = "enhanced"
  /\ _execute_agent_step_with_dependencies("researcher") /\ ExecFrame

coder_node_with_dependencies ==
  /\ node = "coder" /\ variant = "enhanced"
  /\ _execute_agent_step_with_dependencies("coder") /\ ExecFrame

database_researcher_node ==
  /\ node = "researcher" /\ variant = "database"
  /\ _execute_database_agent_step("researcher") /\ ExecFrame

\* ---------------------------------------------------------------- reporter
\* token_manager.manage_observations(observations) in reporter_node, as the
\* texts handed to the model: a kept observation, or what stands for it
ReporterManaged(stored) ==
  LET managed_observations ==
        manage_observations([i \in 1..Len(stored) |->
                               Observation(i, ObservationLength(stored[i]))],
                            DefaultObservationManagement)
  IN [j \in 1..Len(managed_observations) |->
        IF managed_observations[j].kind = "full" THEN stored[managed_observations[j].id]
        ELSE managed_observations[j].kind]

\* a reporter that puts the managed observations into its update
ReporterUpdate_managed(stored, managed_observations) == managed_observations

\* "return {"final_report": response_content}": the update has no
\* observations key, managed_observations went into invoke_messages only
ReporterUpdate(stored, managed_observations) == stored

\* current_plan.title raises AttributeError unless current_plan is a Plan
reporter_node ==
  /\ node = "reporter"
  /\ variant # "database"
  /\ IF current_plan.kind = "plan"
     THEN node' = "__end__" /\ final_report' = "report"
     ELSE node' = "raised" /\ UNCHANGED final_report
  /\ observations' = ReporterUpdate(observations, ReporterManaged(observations))
  /\ last' = Did("reporter")
  /\ UNCHANGED <<managerVars, config, current_plan, plan_iterations, messages,
                 investigation, history>>

\* ---------------------------------------------------------- database graph
database_planner_node ==
  /\ node = "planner"
  /\ variant = "database"
  /\ node' = "research_team"
  /\ IF Falsy(investigation)
     THEN /\ last' = Did("planner_no_investigation")
          /\ UNCHANGED <<current_plan, messages, plannerCalls, planned, executed>>
     ELSE \E response \in PlannerResponses(MaxSteps - planned) :
            /\ plannerCalls' = plannerCalls + 1
            /\ planned' = planned + Len(response.steps)
            /\ IF response.valid
               THEN /\ current_plan' = Plan(response)
                    /\ messages' = Append(messages, "database_planner")
                    /\ executed' = <<>>
                    /\ last' = Did("planner_plan")
               ELSE /\ last' = Did("planner_parse_error")
                    /\ UNCHANGED <<current_plan, messages, executed>>
  /\ UNCHANGED <<managerVars, config, plan_iterations, observations, investigation, final_report,
                 editCount, faults, routed>>

continue_to_running_database_research_team(plan) ==
  IF plan.kind = "none" \/ plan.steps = <<>> THEN "reporter"
  ELSE IF \A i \in 1..Len(plan.steps) : ~Falsy(plan.steps[i].execution_res) THEN "reporter"
  ELSE "researcher"

database_research_team_node ==
  /\ node = "research_team"
  /\ variant = "database"
  /\ node' = continue_to_running_database_research_team(current_plan)
  /\ routed' = [target |-> continue_to_running_database_research_team(current_plan),
                idx |-> FirstIncomplete(current_plan.steps)]
  /\ last' = Did("research_team")
  /\ UNCHANGED <<managerVars, config, current_plan, plan_iterations, observations, messages,
                 investigation, final_report, plannerCalls, planned, editCount, faults,
                 executed>>

\* an error report without a plan or when the model call fails
database_reporter_node ==
  /\ node = "reporter"
  /\ variant = "database"
  /\ \E llm_ok \in BOOLEAN :
       /\ final_report' = IF current_plan.kind = "none" THEN "error report: no plan"
                          ELSE IF llm_ok THEN "report" ELSE "error report: <error>"
       /\ messages' = Append(messages, IF current_plan.kind # "none" /\ llm_ok
                                       THEN "database_reporter" ELSE "unnamed")
  /\ node' = "__end__"
  /\ last' = Did("reporter")
  /\ UNCHANGED <<managerVars, config, current_plan, plan_iterations, observations,
                 investigation, history>>

\* ------------------------------------------------- token manager, called
\* A token manager with its configuration, a model, a node's strategy and a
\* message list, before the call
TokenInit ==
  /\ variant = "base"
  /\ max_plan_iterations = 1
  /\ auto_accepted_plan = FALSE
  /\ RunStart
  /\ tm_enabled \in BOOLEAN
  /\ tm_strategy \in Strategies \cup {NoStrategy}
  /\ tm_model \in ModelNames
  /\ tm_library \in Libraries
  /\ tm_input \in MessageLists(MaxMessages)
  /\ tm_output = <<>>
  /\ tm_outcome = "idle"
  /\ tm_calls = 0
  /\ tm_safety_margin = DefaultSafetyMargin
  /\ tm_budget = 0
  /\ CounterIdle /\ NoTiktoken
  /\ ObservationsIdle
  /\ ValidationIdle

graphVars ==
  <<config, node, current_plan, plan_iterations, observations, messages,
    investigation, final_report, history, last>>

\* trimmed_messages = token_manager.trim_messages_for_node(messages, model, node)
TrimCall ==
  /\ tm_calls = 0
  /\ LET r == trim_messages_for_node(tm_input, tm_model, tm_enabled, tm_strategy,
                                     tm_library)
     IN tm_output' = r.messages /\ tm_outcome' = r.outcome
  /\ tm_calls' = 1
  /\ UNCHANGED <<tm_enabled, tm_strategy, tm_model, tm_library, tm_input, budgetVars,
                 counterVars, observationVars, validationVars, graphVars>>

\* the returned list handed to trim_messages_for_node once more, as the
\* agents' pre_model_hook does before every model call
TrimAgain ==
  /\ tm_calls = 1
  /\ tm_input' = tm_output
  /\ LET r == trim_messages_for_node(tm_output, tm_model, tm_enabled, tm_strategy,
                                     tm_library)
     IN tm_output' = r.messages /\ tm_outcome' = r.outcome
  /\ tm_calls' = 2
  /\ UNCHANGED <<tm_enabled, tm_strategy, tm_model, tm_library, budgetVars, counterVars,
                 observationVars, validationVars, graphVars>>

TokenNext ==
  \/ TrimCall
  \/ TrimAgain

TokenSpec == TokenInit /\ [][TokenNext]_vars

\* ------------------------------------------------- token budget, computed
\* reserve_for_output of a node's strategy, up to more than any model limit
BudgetReserves == {0, 500, 3000, 40000, 2000000}
BudgetStrategies ==
  [max_tokens : {0}, strategy : {"last"}, include_system : {TRUE},
   reserve_for_output : BudgetReserves]

\* A token manager with its model limits, a safety margin and a node's
\* reserve_for_output, before calculate_available_tokens is called
BudgetInit ==
  /\ variant = "base"
  /\ max_plan_iterations = 1
  /\ auto_accepted_plan = FALSE
  /\ RunStart
  /\ tm_enabled = TRUE
  /\ tm_strategy \in BudgetStrategies
  /\ tm_model \in ModelNames
  /\ tm_library = "swap"
  /\ tm_input = <<>>
  /\ tm_output = <<>>
  /\ tm_outcome = "idle"
  /\ tm_calls = 0
  /\ tm_safety_margin \in SafetyMargins
  /\ tm_budget = 0
  /\ CounterIdle /\ NoTiktoken
  /\ ObservationsIdle
  /\ ValidationIdle

\* max_tokens = self.calculate_available_tokens(model_name, node_name)
BudgetCall ==
  /\ tm_calls = 0
  /\ tm_budget' = calculate_available_tokens(tm_model, tm_strategy)
  /\ tm_calls' = 1
  /\ UNCHANGED <<tm_enabled, tm_strategy, tm_model, tm_library, tm_input, tm_output,
                 tm_outcome, tm_safety_margin, counterVars, observationVars, validationVars, graphVars>>

BudgetNext == BudgetCall

BudgetSpec == BudgetInit /\ [][BudgetNext]_vars

\* ------------------------------------------------------------- properties
\* the keys of the graph state (the rest of vars is configuration and history)
state == <<current_plan, plan_iterations, observations, messages, investigation,
           final_report>>

Ended == node \in {"__end__", "raised"}
Steps == current_plan.steps
AllTerminal(plan) ==
  /\ plan.kind = "plan" /\ plan.steps # <<>>
  /\ \A i \in 1..Len(plan.steps) : plan.steps[i].execution_status \in TerminalStatus

\* C1: a run that got past the coordinator (with a supported feedback payload
\* and at least one planning iteration allowed) and is over has produced a
\* final report, unless the planner's output failed to parse at iteration 0.
C1_Claim ==
  (Ended /\ last.op \notin {"start", "coordinator", "unsupported_feedback"}
         /\ max_plan_iterations >= 1)
    => \/ final_report # None
       \/ last.op = "planner_parse_error" /\ plan_iterations = 0

\* C2: when every step of the plan has a terminal status, the router's way
\* out of research_team reaches the reporter with no step executor and no
\* planning model called.
C2_Claim ==
  [][/\ (node = "research_team" /\ AllTerminal(current_plan))
          => node' \in {"planner", "reporter"}
     /\ (node = "planner" /\ last.op = "research_team" /\ AllTerminal(current_plan))
          => node' = "reporter" /\ plannerCalls' = plannerCalls]_vars

\* C3: (base and dependency-aware graphs) the step an executor executes is
\* the step the router picked, and its kind is the executor's: research for
\* the researcher, processing for the coder.
C3_Claim ==
  (variant # "database" /\ last.op = "exec")
    => /\ last.idx = routed.idx
       /\ last.agent = "researcher" => Steps[last.idx].step_type = RESEARCH
       /\ last.agent = "coder" => Steps[last.idx].step_type = PROCESSING

FeedbackOutcome(kind) ==
  IF kind = "edit"
  THEN /\ node' = "planner"
       /\ messages' = Append(messages, "feedback")
       /\ UNCHANGED <<current_plan, plan_iterations, observations, investigation,
                      final_report>>
  ELSE IF kind = "accepted"
  THEN /\ node' = "research_team"
       /\ current_plan' = Plan(current_plan)
       /\ plan_iterations' = plan_iterations + 1
       /\ UNCHANGED <<observations, messages, investigation, final_report>>
  ELSE node' = "raised" /\ UNCHANGED state

C7_Claim ==
  (last.op = "exec" /\ last.outcome.kind = "raise")
    => node = "research_team" /\ ~Falsy(Steps[last.idx].execution_res)

\* the status the failure policy gives an error of this class
StatusOfClass(cls) ==
  CASE cls = "content" -> SKIPPED
    [] cls = "rate" -> RATE_LIMITED
    [] OTHER -> FAILED

\* C8: (dependency-aware executor) after a raising executor call the step's
\* status is the one of the error's class, and a non-empty placeholder
\* result and an error message are on the step.
C8_Claim ==
  (variant = "enhanced" /\ last.op = "exec" /\ last.outcome.kind = "raise")
    => /\ Steps[last.idx].execution_status = StatusOfClass(last.outcome.err.cls)
       /\ ~Falsy(Steps[last.idx].execution_res)
       /\ Steps[last.idx].error_message # None

\* C9: an executor invocation that selected a step sets the step's result
\* and status, appends exactly the step's stored result to the observations,
\* returns to research_team and changes no other step.
C9_Claim ==
  [][last'.op = "exec"
       => LET i == last'.idx IN
          /\ current_plan'.steps[i].execution_res # None
          /\ current_plan'.steps[i].execution_status \in TerminalStatus
          /\ observations' = Append(observations, current_plan'.steps[i].execution_res)
          /\ node' = "research_team"
          /\ \A j \in 1..Len(Steps) : j # i => current_plan'.steps[j] = Steps[j]]_vars

\* C10: a step has a result exactly when its status is terminal, and a
\* terminal step's status and result never change (while its plan is the
\* current one).
C10_Claim ==
  /\ [](current_plan.kind = "plan"
          => \A i \in 1..Len(Steps) :
               Steps[i].execution_res # None <=> Steps[i].execution_status \in TerminalStatus)
  /\ [][(current_plan.kind = "plan" /\ current_plan'.kind = "plan" /\ last'.op = "exec")
          => \A i \in 1..Len(Steps) :
               Steps[i].execution_status \in TerminalStatus => current_plan'.steps[i] = Steps[i]]_vars

\* C11: the steps executors ran on the current plan are its steps 1, 2, ...
\* in this order: a prefix of the plan, no step twice.
C11_Claim == \A k \in 1..Len(executed) : executed[k] = k

Declared(st) == <<st.step_type, st.depends_on, st.dependency_type>>

Count(l) == count_messages_tokens(l, tm_model)
Budget == MaxTokens(tm_model, tm_strategy)
Trimmed == tm_calls >= 1 /\ tm_enabled /\ tm_strategy # NoStrategy
IsPrefix(a, b) == Len(a) <= Len(b) /\ a = SubSeq(b, 1, Len(a))
IsSuffix(a, b) == Len(a) <= Len(b) /\ a = SubSeq(b, Len(b) - Len(a) + 1, Len(b))

C15_Claim == Trimmed => Count(tm_output) <= get_model_limit(tm_model)

\* C16: for a non-empty input the returned list is not empty and has the
\* leading system message or the most recent message.
C16_Claim ==
  (tm_calls >= 1 /\ tm_input # <<>>)
    => /\ tm_output # <<>>
       /\ \E k \in 1..Len(tm_output) :
            \/ IsSystem(tm_input[1]) /\ tm_output[k] = tm_input[1]
            \/ tm_output[k] = tm_input[Len(tm_input)]

\* C17: the fallback returns the system messages and, of the others, the
\* N = max_tokens // 100 most recent: at most N of them.
C17_Claim ==
  (Trimmed /\ tm_outcome = "fallback")
    => LET N == Budget \div 100
           kept == SelectSeq(tm_output, IsOther)
       IN /\ Len(kept) <= N
          /\ IsSuffix(kept, SelectSeq(tm_input, IsOther))

\* C18: an input within the budget comes back unchanged, and so does what a
\* call returned when it is handed in again.
C18_Claim ==
  /\ (Trimmed /\ Count(tm_input) <= Budget) => tm_output = tm_input
  /\ tm_calls = 2 => tm_output = tm_input

NonPinned(l) ==
  IF tm_outcome = "fallback" THEN SelectSeq(l, IsOther)
  ELSE IF tm_strategy.include_system /\ l # <<>> /\ IsSystem(l[1]) THEN Tail(l)
  ELSE l

\* C20: the messages kept besides the pinned ones are a most-recent suffix
\* of the input's with strategy last and a prefix with strategy first, and
\* the kept messages are in their original order, on the fallback path too.
C20_Claim ==
  Trimmed
    => /\ tm_strategy.strategy = "last" => IsSuffix(NonPinned(tm_output), NonPinned(tm_input))
       /\ tm_strategy.strategy = "first" => IsPrefix(NonPinned(tm_output), NonPinned(tm_input))
       /\ \A j, k \in 1..Len(tm_output) : j < k => tm_output[j].id < tm_output[k].id

\* ---------------------------------------------- token counters, shared
\* TokenCounterFactory._get_tiktoken_model over TIKTOKEN_MODEL_MAPPING
_get_tiktoken_model(model_name) ==
  IF model_name = "gpt-4" THEN "gpt-4" ELSE None

\* TokenCounterFactory.create_counter: a TiktokenCounter for a model with a
\* tiktoken encoding when it can be constructed, otherwise an
\* ApproximateTokenCounter with the model's chars_per_token
create_counter(model_name) ==
  IF _get_tiktoken_model(model_name) # None /\ tc_available
  THEN [kind |-> "tiktoken", model_name |-> _get_tiktoken_model(model_name)]
  ELSE [kind |-> "approximate", model_name |-> model_name]

\* The message dicts of professional_token_counter. A content is known by
\* its length in characters, by the tokens the tiktoken encoding makes of
\* it, and by whether encode() raises on it (as on "<|endoftext|>").
ShortText == [role |-> "user", length |-> 2, tokens |-> 1, special |-> FALSE]
LongText == [role |-> "user", length |-> 400, tokens |-> 90, special |-> FALSE]
SpecialText == [role |-> "user", length |-> 13, tokens |-> 7, special |-> TRUE]
CounterInputs == {<<LongText>>, <<ShortText, LongText>>, <<SpecialText, LongText>>}

\* f"<|im_start|>{role}\n{content}<|im_end|>" in characters, and the tokens
\* of what surrounds the content
RoleLength(role) ==
  CASE role = "system" -> 6 [] role = "assistant" -> 9 [] OTHER -> 4
FormattedLength(message) == 12 + RoleLength(message.role) + 1 + message.length + 10
WrapperTokens == 10

\* TiktokenCounter._format_messages_for_counting: the parts joined by "\n"
RECURSIVE _format_messages_for_counting(_)
_format_messages_for_counting(message_dicts) ==
  IF message_dicts = <<>> THEN [length |-> 0, tokens |-> 0, special |-> FALSE]
  ELSE LET rest == _format_messages_for_counting(Tail(message_dicts))
           joined == IF Tail(message_dicts) = <<>> THEN 0 ELSE 1
       IN [length |-> FormattedLength(Head(message_dicts)) + joined + rest.length,
           tokens |-> WrapperTokens + Head(message_dicts).tokens
                      + joined * tc_separator + rest.tokens,
           special |-> Head(message_dicts).special \/ rest.special]

\* the body of TiktokenCounter.count_tokens: len(self.encoding.encode(text)),
\* and ApproximateTokenCounter().count_tokens(text) when that raises
Encoded(text) ==
  IF text.length = 0 THEN 0
  ELSE IF text.special THEN count_tokens(text.length, "default")
  ELSE text.tokens

\* TiktokenCounter.count_tokens under lru_cache: the value cached for
\* (self, text) if there is one, otherwise the computed value, then cached
TiktokenCounter_count_tokens(self, text, cache) ==
  LET hit == {e \in cache : e.self = self /\ e.text = text}
  IN IF hit # {} THEN [count |-> (CHOOSE e \in hit : TRUE).count, cache |-> cache]
     ELSE [count |-> Encoded(text),
           cache |-> cache \cup {[self |-> self, text |-> text, count |-> Encoded(text)]}]

\* counter.count_messages_tokens(message_dicts) of the counter instance self
counter_count_messages_tokens(self, instance, message_dicts, cache) ==
  IF instance.kind = "approximate"
  THEN [count |-> count_messages_tokens(message_dicts, instance.model_name),
        cache |-> cache]
  ELSE IF message_dicts = <<>> THEN [count |-> 0, cache |-> cache]
  ELSE TiktokenCounter_count_tokens(self, _format_messages_for_counting(message_dicts),
                                    cache)

\* a lookup that takes whichever counter the cache holds
CounterFor_any(counters, model_name) ==
  LET held == {m \in CounterModels : counters[m] # 0}
  IN IF held = {} THEN 0 ELSE counters[CHOOSE m \in held : TRUE]

\* "counter = self._token_counters[model_name]"
CounterFor(counters, model_name) == counters[model_name]

\* what a counter constructed for this call alone returns
FreshCount(model_name, message_dicts) ==
  counter_count_messages_tokens(0, create_counter(model_name), message_dicts, {}).count

\* calls each thread makes
MaxCounts == 2

\* A shared TokenManager whose counter cache is empty, in a process with or
\* without tiktoken
CounterInit ==
  /\ variant = "base"
  /\ max_plan_iterations = 1
  /\ auto_accepted_plan = FALSE
  /\ RunStart
  /\ TokenManagerIdle
  /\ tc_available \in BOOLEAN
  /\ tc_separator \in {0, 1}
  /\ CounterIdle
  /\ ObservationsIdle
  /\ ValidationIdle

counterIdleVars ==
  <<tokenVars, budgetVars, observationVars, validationVars, graphVars, tc_available,
    tc_separator>>

\* professional_token_counter(messages) is called:
\* "if model_name not in self._token_counters:"
professional_token_counter ==
  \E t \in Threads, model_name \in CounterModels, message_dicts \in CounterInputs :
    /\ tc_pc[t] = "idle" /\ tc_calls[t] < MaxCounts
    /\ tc_model' = [tc_model EXCEPT ![t] = model_name]
    /\ tc_messages' = [tc_messages EXCEPT ![t] = message_dicts]
    /\ tc_calls' = [tc_calls EXCEPT ![t] = @ + 1]
    /\ tc_pc' = [tc_pc EXCEPT ![t] = IF tc_counters[model_name] = 0 THEN "create"
                                     ELSE "fetch"]
    /\ UNCHANGED <<counterIdleVars, tc_counters, tc_instances, tc_cache, tc_counter,
                   tc_result>>

\* "self._token_counters[model_name] = TokenCounterFactory.create_counter(model_name)"
CreateCounter ==
  \E t \in Threads :
    /\ tc_pc[t] = "create"
    /\ tc_instances' = Append(tc_instances, create_counter(tc_model[t]))
    /\ tc_counters' = [tc_counters EXCEPT ![tc_model[t]] = Len(tc_instances) + 1]
    /\ tc_pc' = [tc_pc EXCEPT ![t] = "fetch"]
    /\ UNCHANGED <<counterIdleVars, tc_cache, tc_model, tc_messages, tc_counter,
                   tc_result, tc_calls>>

\* "counter = self._token_counters[model_name]"
FetchCounter ==
  \E t \in Threads :
    /\ tc_pc[t] = "fetch"
    /\ tc_counter' = [tc_counter EXCEPT ![t] = CounterFor(tc_counters, tc_model[t])]
    /\ tc_pc' = [tc_pc EXCEPT ![t] = "count"]
    /\ UNCHANGED <<counterIdleVars, tc_counters, tc_instances, tc_cache, tc_model,
                   tc_messages, tc_result, tc_calls>>

\* "return counter.count_messages_tokens(message_dicts)"
CountMessages ==
  \E t \in Threads :
    /\ tc_pc[t] = "count"
    /\ LET r == counter_count_messages_tokens(tc_counter[t], tc_instances[tc_counter[t]],
                                              tc_messages[t], tc_cache)
       IN /\ tc_result' = [tc_result EXCEPT ![t] = r.count]
          /\ tc_cache' = r.cache
    /\ tc_pc' = [tc_pc EXCEPT ![t] = "idle"]
    /\ UNCHANGED <<counterIdleVars, tc_counters, tc_instances, tc_model, tc_messages,
                   tc_counter, tc_calls>>

CounterNext ==
  \/ professional_token_counter
  \/ CreateCounter
  \/ FetchCounter
  \/ CountMessages

CounterSpec == CounterInit /\ [][CounterNext]_vars

\* a call of the token counter has returned
Counted(t) == tc_pc[t] = "idle" /\ tc_calls[t] > 0
RECURSIVE SumAlone(_, _)
SumAlone(model_name, message_dicts) ==
  IF message_dicts = <<>> THEN 0
  ELSE FreshCount(model_name, <<Head(message_dicts)>>)
       + SumAlone(model_name, Tail(message_dicts))

\* C22: for every model's counter the count of a list of messages is the sum
\* of the counts of its messages, each counted alone.
C22_Additive ==
  \A t \in Threads : Counted(t) => tc_result[t] = SumAlone(tc_model[t], tc_messages[t])

\* C23: whatever the interleaving of the calls sharing one TokenManager and
\* whatever calls came before, a call returns what a freshly constructed
\* counter returns for its messages and model.
C23_CacheTransparent ==
  \A t \in Threads : Counted(t) => tc_result[t] = FreshCount(tc_model[t], tc_messages[t])
\* two calls raced to create the counter of one model, and a later call
\* counted with the cached one
C23_Witness ==
  /\ Len(tc_instances) >= 2
  /\ \E t \in Threads :
       /\ Counted(t) /\ tc_calls[t] = MaxCounts
       /\ tc_instances[tc_counter[t]].kind = "tiktoken"
       /\ \E i \in 1..Len(tc_instances) :
            i # tc_counter[t] /\ tc_instances[i] = tc_instances[tc_counter[t]]

\* ------------------------------------------- observations, compacted
\* A token manager with its observation_management, and the observations
\* of a run, before the call
ObservationInit ==
  /\ variant = "base"
  /\ max_plan_iterations = 1
  /\ auto_accepted_plan = FALSE
  /\ RunStart
  /\ TokenManagerIdle
  /\ CounterIdle /\ NoTiktoken
  /\ om_config \in ObservationManagement
  /\ om_input \in ObservationLists(MaxObservations)
  /\ om_output = <<>>
  /\ om_calls = 0
  /\ ValidationIdle

\* managed_observations = token_manager.manage_observations(observations)
ManageObservations ==
  /\ om_calls = 0
  /\ om_output' = manage_observations(om_input, om_config)
  /\ om_calls' = 1
  /\ UNCHANGED <<om_config, om_input, tokenVars, budgetVars, counterVars, validationVars,
                 graphVars>>

ObservationNext == ManageObservations

ObservationSpec == ObservationInit /\ [][ObservationNext]_vars

Managed == om_calls = 1 /\ om_config.enabled
Max(a, b) == IF a > b THEN a ELSE b

\* C24: manage_observations returns at most
\* max(len(input), max_full_observations) entries.
C24_Claim ==
  Managed => Len(om_output) <= Max(Len(om_input), om_config.max_full_observations)

\* C25: whatever max_observation_length, summary_target_length and
\* enable_summarization are, every entry manage_observations returns is at
\* most max_observation_length characters long.
C25_Claim ==
  Managed => \A i \in 1..Len(om_output) :
               om_output[i].length <= om_config.max_observation_length

\* C26: for an input of more than max_full_observations entries
\* manage_observations returns one marker stating
\* N = len(input) - max_full_observations, then the max_full_observations
\* most recent entries in their order, each within max_observation_length.
C26_Claim ==
  (Managed /\ Len(om_input) > om_config.max_full_observations)
    => LET K == om_config.max_full_observations
           N == Len(om_input) - K
       IN /\ Len(om_output) = K + 1
          /\ om_output[1].kind = "marker" /\ om_output[1].older = N
          /\ \A j \in 1..K :
               /\ om_output[j + 1].kind # "marker"
               /\ om_output[j + 1].id = om_input[N + j].id
               /\ om_output[j + 1].length <= om_config.max_observation_length

C28_Claim ==
  last.op = "exec"
    => LET step == Steps[last.idx] IN
       /\ \A f \in last.findings : f.dep \in step.depends_on
       /\ (step.depends_on = {} \/ step.dependency_type = "none") => last.findings = {}

\* C29: of a dependency that is not completed the context built by
\* build_context_for_step has a status note and none of the result text
\* stored on it.
C29_Claim ==
  (last.op = "exec" /\ variant = "enhanced")
    => \A f \in last.findings :
         Steps[f.dep].execution_status # COMPLETED
           => f.status_note /\ f.text # Steps[f.dep].execution_res

\* ------------------------------------------- step dependencies, validated
\* The steps of a planner's response as validate_step_dependencies reads
\* them. Steps are counted from 1 here as in the rest of the module (the
\* source counts from 0): index 0 stands for a negative index, and
\* MaxSteps + 1 for one beyond the plan.
DependencyIndices == 0..(MaxSteps + 1)
DeclaredSteps ==
  [depends_on : {D \in SUBSET DependencyIndices : Cardinality(D) <= 2},
   dependency_type : {"none", "summary"}, required_info : {{}}]
  \cup [depends_on : {D \in SUBSET DependencyIndices : Cardinality(D) <= 2},
        dependency_type : {"key_points"}, required_info : {{}, {"market_size"}}]
DeclaredPlans == UNION {[1..n -> DeclaredSteps] : n \in 1..MaxSteps}

\* the indices of a depends_on in increasing order
RECURSIVE Ascending(_)
Ascending(S) ==
  IF S = {} THEN <<>>
  ELSE LET least == CHOOSE x \in S : \A y \in S : x <= y
       IN <<least>> \o Ascending(S \ {least})

DependencyError(kind, i, dep_index) == [kind |-> kind, step |-> i, dep |-> dep_index]

\* the checks of one dependency without the one for a negative index
DependencyErrors_upper(i, dep_index, length) ==
  (IF dep_index >= i THEN <<DependencyError("forward", i, dep_index)>> ELSE <<>>)
  \o (IF dep_index > length
      THEN <<DependencyError("invalid_index", i, dep_index)>> ELSE <<>>)

\* "if dep_index >= i: ..." (circular or forward dependency) and
\* "if dep_index < 0 or dep_index >= len(plan.steps): ..." (invalid index)
DependencyErrors(i, dep_index, length) ==
  (IF dep_index >= i THEN <<DependencyError("forward", i, dep_index)>> ELSE <<>>)
  \o (IF dep_index < 1 \/ dep_index > length
      THEN <<DependencyError("invalid_index", i, dep_index)>> ELSE <<>>)

\* the errors validate_step_dependencies appends for step i
RECURSIVE EdgeErrors(_, _, _)
EdgeErrors(i, deps, length) ==
  IF deps = <<>> THEN <<>>
  ELSE DependencyErrors(i, Head(deps), length) \o EdgeErrors(i, Tail(deps), length)
StepErrors(i, step, length) ==
  EdgeErrors(i, Ascending(step.depends_on), length)
  \o (IF step.dependency_type = "key_points" /\ step.required_info = {}
      THEN <<DependencyError("no_required_info", i, 0)>> ELSE <<>>)
  \o (IF i \in step.depends_on THEN <<DependencyError("self", i, i)>> ELSE <<>>)

\* validate_step_dependencies(plan): the error messages, in the order they
\* are appended
RECURSIVE ErrorsFrom(_, _)
ErrorsFrom(i, steps) ==
  IF i > Len(steps) THEN <<>>
  ELSE StepErrors(i, steps[i], Len(steps)) \o ErrorsFrom(i + 1, steps)
validate_step_dependencies(steps) == ErrorsFrom(1, steps)

\* A planner's response with steps, parsed, before its validation
ValidationInit ==
  /\ variant = "enhanced"
  /\ max_plan_iterations = 1
  /\ auto_accepted_plan = FALSE
  /\ RunStart
  /\ TokenManagerIdle
  /\ CounterIdle /\ NoTiktoken
  /\ ObservationsIdle
  /\ vd_plan \in DeclaredPlans
  /\ vd_errors = <<>>
  /\ vd_calls = 0

\* errors = validate_step_dependencies(temp_plan)
ValidateDependencies ==
  /\ vd_calls = 0
  /\ vd_errors' = validate_step_dependencies(vd_plan)
  /\ vd_calls' = 1
  /\ UNCHANGED <<vd_plan, tokenVars, budgetVars, counterVars, observationVars, graphVars>>

ValidationNext == ValidateDependencies

ValidationSpec == ValidationInit /\ [][ValidationNext]_vars

\* every depends_on index is a step before the step's own, and a key_points
\* step names what it needs
WellDeclared(steps) ==
  \A i \in 1..Len(steps) :
    /\ \A d \in steps[i].depends_on : 1 <= d /\ d < i
    /\ steps[i].dependency_type = "key_points" => steps[i].required_info # {}

\* C30: validate_step_dependencies returns the empty list exactly when every
\* depends_on index of every step is a step before it (not negative, not the
\* step itself, not a later one) and every key_points step has a non-empty
\* required_info.
C30_Exact == vd_calls = 1 => (vd_errors = <<>> <=> WellDeclared(vd_plan))
\* a plan with a backward dependency and key_points with required_info
\* passed the validation
C30_Witness ==
  /\ vd_calls = 1 /\ vd_errors = <<>>
  /\ \E i \in 1..Len(vd_plan) :
       /\ vd_plan[i].depends_on # {}
       /\ vd_plan[i].dependency_type = "key_points"

\* C21: whatever the model limit, the safety margin and reserve_for_output
\* are (a reserve above the model limit, a margin above 1 included), the
\* budget calculate_available_tokens returns is at least 1000 tokens.
C21_Floor == tm_calls = 1 => tm_budget >= 1000
C21_Witness ==
  /\ tm_calls = 1
  /\ tm_strategy.reserve_for_output > get_model_limit(tm_model)
  /\ tm_safety_margin > 100
  /\ tm_budget = 1000

\* the messages validate_step_dependencies returned about the edge from
\* step i to dep_index
MessagesAbout(i, dep_index) ==
  {k \in 1..Len(vd_errors) : vd_errors[k].step = i /\ vd_errors[k].dep = dep_index}

\* C31: for every forward or self reference of a plan (a depends_on index
\* at or after the step's own) the validator returns exactly one message
\* about that edge, whatever the length of the plan.
C31_Claim ==
  vd_calls = 1
    => \A i \in 1..Len(vd_plan) : \A d \in vd_plan[i].depends_on :
         d >= i => Cardinality(MessagesAbout(i, d)) = 1

\* the dependency edges of the plan that validate_step_dependencies reports
InvalidEdges(steps) ==
  {e \in (1..Len(steps)) \X (0..(MaxSteps + 1)) :
     e[2] \in steps[e[1]].depends_on /\ ~(e[2] \in 1..(e[1] - 1))}

\* C32: (dependency-aware workflow) a plan with invalid dependency edges
\* does not abort the run in the planner or at acceptance, the plan that is
\* executed holds none of these edges any more, and no context built for a
\* step takes text through one of them.
C32_Claim ==
  variant = "enhanced"
    => /\ (last.op \in {"planner_plan", "accepted"} => node # "raised")
       /\ (current_plan.kind = "plan" /\ last.op \in {"accepted", "exec"}
             => InvalidEdges(Steps) = {})
       /\ (last.op = "exec"
             => \A d \in last.context : <<last.idx, d>> \notin InvalidEdges(Steps))

\* C33: whichever executor ran a step and got a response, the step's stored
\* result is the response itself when it has at most 15,000 characters, and
\* head, marker and tail of it when it has more.
C33_Claim ==
  (last.op = "exec" /\ last.outcome.kind = "ok" /\ node # "raised")
    => Steps[last.idx].execution_res =
         (IF ObservationLength(last.outcome.content) > max_response_length
          THEN TruncatedFinding ELSE last.outcome.content)

\* the list trim_messages_for_node returns for the input of this call when
\* the model is model_name, all else as in the call
TrimmedFor(model_name) ==
  trim_messages_for_node(tm_input, model_name, tm_enabled, tm_strategy, tm_library).messages

\* C34: for the same messages and the same stage, a model with a larger
\* configured token limit keeps at least as many messages as a model with a
\* smaller limit.
C34_Claim ==
  (tm_calls = 1 /\ Trimmed)
    => \A smaller \in ModelNames : \A larger \in ModelNames :
         get_model_limit(smaller) <= get_model_limit(larger)
           => Len(TrimmedFor(smaller)) <= Len(TrimmedFor(larger))

\* the characters of a list of observations, all entries together
RECURSIVE TotalLength(_)
TotalLength(obs_list) ==
  IF obs_list = <<>> THEN 0 ELSE obs_list[1].length + TotalLength(Tail(obs_list))

\* C35: manage_observations returns no more characters in total than it
\* was given, and the empty list for the empty list.
C35_Claim ==
  om_calls = 1
    => /\ TotalLength(om_output) <= TotalLength(om_input)
       /\ (om_input = <<>> => om_output = <<>>)

\* C36: (base and dependency-aware workflow) whenever the reporter is the
\* node to run, current_plan is a parsed Plan object, neither absent nor
\* the planner's raw text, whichever way the reporter was reached.
C36_Claim ==
  (variant # "database" /\ node = "reporter") => current_plan.kind = "plan"

\* C37: (base and dependency-aware workflow) the executor works on the step
\* the router picked, no executor is entered to find no step to execute, and
\* the executors run at most once per step of the plan, an empty response
\* included.
C37_Claim ==
  variant # "database"
    => /\ last.op # "exec_no_step"
       /\ last.op = "exec" => last.idx = routed.idx
       /\ current_plan.kind = "plan" => Len(executed) <= Len(Steps)

pre_model_hook(state_messages, model_name, enabled, strategy, library) ==
  LET min_messages == 2
      trimmed_messages ==
        trim_messages_for_node(state_messages, model_name, enabled, strategy,
                               library).messages
      humans == {k \in 1..Len(state_messages) : state_messages[k].type = HumanMessage}
      important_messages ==
        SelectSeq(state_messages, IsSystem)
        \o (IF humans = {} THEN <<>>
            ELSE <<state_messages[CHOOSE k \in humans : \A j \in humans : j <= k]>>)
      kept == IF Len(trimmed_messages) < min_messages /\ Len(state_messages) >= min_messages
              THEN important_messages ELSE trimmed_messages
  IN IF ~enabled THEN state_messages
     ELSE IF Len(kept) # Len(state_messages) THEN kept ELSE state_messages

\* one model call of an agent: tm_input is state["messages"] before the
\* hook, tm_output after it; tm_outcome is how trim_messages_for_node ended
PreModelHook ==
  /\ tm_calls = 0
  /\ tm_output' = pre_model_hook(tm_input, tm_model, tm_enabled, tm_strategy, tm_library)
  /\ tm_outcome' = trim_messages_for_node(tm_input, tm_model, tm_enabled, tm_strategy,
                                          tm_library).outcome
  /\ tm_calls' = 1
  /\ UNCHANGED <<tm_enabled, tm_strategy, tm_model, tm_library, tm_input, budgetVars,
                 counterVars, observationVars, validationVars, graphVars>>

HookSpec == TokenInit /\ [][PreModelHook]_vars

\* C39: after pre_model_hook ran with token management enabled and a
\* strategy configured for the agent, the messages the model receives count
\* at most the stage's budget and are not empty if the input was not, also
\* when the minimum context took the place of the trimmed list.
C39_Claim ==
  Trimmed => /\ Count(tm_output) <= Budget
             /\ tm_input # <<>> => tm_output # <<>>

\* C40: (database workflow) every visit to the researcher leaves the step
\* it worked on with a result (the failure text when the agent raised), no
\* visit finds no step to execute, and a plan of n steps takes at most n
\* visits; without a plan the router goes to the reporter, which returns an
\* error report and ends the run.
C40_Claim ==
  variant = "database"
    => /\ last.op # "exec_no_step"
       /\ last.op = "exec"
            => node = "research_team" /\ ~Falsy(Steps[last.idx].execution_res)
       /\ current_plan.kind = "plan" => Len(executed) <= Len(Steps)
       /\ (last.op = "research_team" /\ current_plan.kind = "none") => node = "reporter"
       /\ (last.op = "reporter" /\ current_plan.kind = "none")
            => node = "__end__" /\ final_report = "error report: no plan"

Next ==
  \/ coordinator_node
  \/ background_investigation_node
  \/ database_investigation_node
  \/ planner_node
  \/ planner_node_with_dependencies
  \/ database_planner_node
  \/ human_feedback_node
  \/ research_team_node
  \/ database_research_team_node
  \/ researcher_node
  \/ coder_node
  \/ researcher_node_with_dependencies
  \/ coder_node_with_dependencies
  \/ database_researcher_node
  \/ reporter_node
  \/ database_reporter_node

Spec == Init /\ [][Next]_vars
====
